---- MODULE Spec2Model ----
(***************************************************************************)
(* Model of the audio acquisition and mashup-assembly pipeline of app.py:  *)
(* download_single_audio (the Fetcher), download_all_audio (the Fetch      *)
(* Coordinator, a ThreadPoolExecutor drained with as_completed) and        *)
(* create_mashup (the Assembler).                                          *)
(*                                                                         *)
(* Time is counted in units of 1/JitterSteps second.  A file of the        *)
(* scratch directory is the pair <<kind, ordinal>>: <<"video", i>> is any  *)
(* file whose name starts with "video_<i>." and <<"song", i>> is           *)
(* song_<i>.wav.  Audio is a sequence of samples; the sample at position k *)
(* of the artifact of ordinal i is <<i, k>>.                               *)
(***************************************************************************)
EXTENDS Integers, Sequences, FiniteSets, TLC

VARIABLES
    video_urls,        \* the resolved URL list; ordinal i is position i
    num_cores,         \* multiprocessing.cpu_count()
    env,               \* what the network, the decoder and random may do in this run
    trim_duration,     \* excerpt duration in seconds
    media,             \* media[i]: what song_<i>.wav decodes to when sf.read opens it
    stage,             \* position of the caller: download_all_audio, then create_mashup
    pc,                \* pc[i]: position of the fetch of ordinal i
    attempt,           \* attempt[i]: loop variable of the retry loop
    tries,             \* tries[i]: number of ydl.download calls made
    waits,             \* waits[i]: number of backoff sleeps completed
    delay,             \* delay[i]: length of the last backoff sleep (0: none yet)
    exc,               \* exc[i]: the exception being handled by the outer except
    result,            \* result[i]: the future's result
    files,             \* content of the scratch directory
    finished_futures,  \* futures in completion order, not yet yielded by as_completed
    yielded,           \* futures already yielded by as_completed
    downloaded_files,  \* the list download_all_audio builds / create_mashup receives
    output,            \* what create_mashup returned and wrote
    invoked,           \* the stages create_mashup_process has invoked so far
    outcomes,          \* the terminal outcomes create_mashup_process has reported
    scratch,           \* the temporary directory exists
    reported,          \* the Duration written in the body of the email (0: no email)
    request,           \* the form of the request create_mashup_route handles
    response,          \* what create_mashup_route answered and whether it started a pipeline
    dir_listing,       \* named files of a scratch directory, each with the ordinal that wrote it
    matched,           \* per ordinal: where its fetch is and the listing it holds
    previous,          \* what the call of create_mashup before the last returned and wrote
    log_queue,         \* the messages in the process-wide queue
    produced,          \* produced[t]: messages thread t has put so far
    streams,           \* the /logs generators: client connected, generator alive, message held, messages delivered
    dropped            \* messages a generator took from the queue and could not deliver

vars == <<video_urls, num_cores, env, trim_duration, media, stage, pc,
          attempt, tries, waits, delay, exc, result, files, finished_futures,
          yielded, downloaded_files, output, invoked, outcomes, scratch,
          reported, request, response, dir_listing, matched, previous,
          log_queue, produced, streams, dropped>>

cfgVars == <<video_urls, num_cores, env, trim_duration, media>>

fetchVars == <<pc, attempt, tries, waits, delay, exc, result, files,
               finished_futures>>

procVars == <<invoked, outcomes, scratch, reported>>

logVars == <<log_queue, produced, streams, dropped>>
sideVars == <<request, response, dir_listing, matched, previous, logVars>>

(***************************************************************************)
(* Bounds of the model.                                                    *)
(***************************************************************************)
MaxRefs == 3          \* references per run in Spec
MaxCores == 2         \* cpu_count() ranges over 1..MaxCores in Spec
LiveRefs == 2         \* references per run in FairSpec
PartialFaults == 2    \* failing calls in the runs that leave part files
JitterSteps == 1      \* random.uniform(0, 1) is drawn from {0, 1/JitterSteps, .., 1}
PoolRefs == 5         \* references per run in SpecPool
PoolCores == 5        \* cpu_count() ranges over 1..PoolCores in SpecPool
PoolFaults == 1       \* failing calls per run in SpecPool
MaxFiles == 3         \* artifacts handed to create_mashup in SpecMashup
MaxLen == 2           \* samples per artifact in SpecMashup
MaxRate == 2          \* sample rates 1..MaxRate in SpecMashup
MaxDur == 2           \* largest trim_duration in SpecMashup
MaxNeg == 1           \* smallest trim_duration in SpecMashup is -MaxNeg
TwiceFiles == 2       \* artifacts handed to create_mashup in SpecTwice
PipelineTrim == 2     \* trim_duration of the runs of Spec and SpecPool
ProcRefs == 2         \* videos the resolver finds at most in SpecProcess
ProcFaults == 5       \* failing calls per run in SpecProcess
MaxEmail == 5         \* characters of receiver_email in SpecRoute
MaxOrdinal == 10      \* ordinals 1..MaxOrdinal in SpecPaths
MaxDirFiles == 2      \* files in the directory at one time in SpecPaths
ButtonFiles == 3      \* files download_all_audio returned in SpecStreamlit
CliRefs == 3          \* videos the search finds at most in SpecCli
MaxMsgs == 2          \* messages each thread puts in SpecLogs
MaxStreams == 2       \* /logs streams opened in SpecLogs

(***************************************************************************)
(* Program constants.                                                      *)
(***************************************************************************)
max_attempts == 5
base_delay == 5
default_num_videos == 10
default_trim_duration == 20
min_num_videos == 10
min_trim_duration == 20

NoneV == <<"None", 0>>
Pending == <<"pending", 0>>
\* video_<i>.mp4, the finished download, and video_<i>.mp4.part, what a
\* failed download leaves behind
VideoFile(i) == <<"video", i>>
PartFile(i) == <<"part", i>>
SongFile(i) == <<"song", i>>

Refs == 1..Len(video_urls)

Min(a, b) == IF a < b THEN a ELSE b
Max(a, b) == IF a > b THEN a ELSE b

RECURSIVE Pow2(_)
Pow2(n) == IF n <= 0 THEN 1 ELSE 2 * Pow2(n - 1)

RECURSIVE SumOver(_, _)
SumOver(f, S) ==
    IF S = {} THEN 0
    ELSE LET x == CHOOSE y \in S : TRUE IN f[x] + SumOver(f, S \ {x})

(***************************************************************************)
(* download_single_audio                                                   *)
(***************************************************************************)
DownloadOutcomes == {"ok", "nofile", "transient", "notfound"}
ConvertOutcomes == {"ok", "decode", "noaudio"}

\* The environment of a run: the outcomes ydl.download and the conversion may
\* have, whether a failing call may leave a partly written file behind, the
\* values random.uniform(0, 1) may take and the number of failing calls.
\* The delivery side: create_zip_file may raise, send_email returns a boolean.
\* refs and media are what get_youtube_links and the decoder may yield when
\* the run starts at the resolver.
FullEnv ==
    [dl |-> DownloadOutcomes, cv |-> ConvertOutcomes, partial |-> BOOLEAN,
     jitter |-> 0..JitterSteps, faults |-> max_attempts,
     zip |-> {"ok", "error"}, mail |-> BOOLEAN, refs |-> {}, media |-> {}]

BatchEnv(faults) ==
    [dl |-> {"ok", "transient"}, cv |-> {"ok", "decode"}, partial |-> {FALSE},
     jitter |-> {0}, faults |-> faults,
     zip |-> {"ok", "error"}, mail |-> BOOLEAN, refs |-> {}, media |-> {}]

\* as BatchEnv, and a failed download may leave its part file behind
PartialEnv(faults) == [BatchEnv(faults) EXCEPT !.partial = BOOLEAN]

\* [f for f in os.listdir(download_path) if f.startswith(f"video_{index}.")]
Listed(i, dir) == {VideoFile(i), PartFile(i)} \cap dir

\* a slip: the delay does not grow with the attempt
BackoffDelay_Flat(a, jitter) == base_delay * JitterSteps + jitter

\* delay = base_delay * (2 ** attempt) + random.uniform(0, 1)
BackoffDelay(a, jitter) == base_delay * Pow2(a) * JitterSteps + jitter

\* failing calls so far: every one either advanced the loop variable of its
\* fetch or is still being handled by the except clause
FaultsUsed == SumOver(attempt, Refs) + Cardinality({i \in Refs : pc[i] = "except"})

Running == {i \in Refs : pc[i] \in {"download", "convert", "except"}}
Queued == {i \in Refs : pc[i] = "queued"}

\* a slip: a worker is never handed back to the pool
WorkerAvailable_Leak == Cardinality({i \in Refs : pc[i] # "queued"}) < num_cores

\* a worker thread is free or can still be spawned
WorkerAvailable == Cardinality(Running) < num_cores

\* the loop variable moves on; the loop ends after max_attempts rounds
NextRound(i, nfiles) ==
    /\ attempt' = [attempt EXCEPT ![i] = @ + 1]
    /\ files' = nfiles
    /\ IF attempt[i] + 1 < max_attempts
       THEN /\ pc' = [pc EXCEPT ![i] = "download"]
            /\ UNCHANGED <<result, finished_futures>>
       ELSE /\ pc' = [pc EXCEPT ![i] = "done"]
            /\ result' = [result EXCEPT ![i] = NoneV]
            /\ finished_futures' = Append(finished_futures, i)

\* a worker takes the oldest queued call
StartFetch(i) ==
    /\ stage \in {"submit", "collect"}
    /\ pc[i] = "queued"
    /\ \A j \in Queued : i <= j
    /\ WorkerAvailable
    /\ pc' = [pc EXCEPT ![i] = "download"]
    /\ UNCHANGED <<attempt, tries, waits, delay, exc, result, files,
                   finished_futures>>
    /\ UNCHANGED <<cfgVars, sideVars, procVars, stage, yielded, downloaded_files, output>>

\* the jitter sleep, ydl.download and the listing of the directory
Download(i) ==
    /\ pc[i] = "download"
    /\ tries' = [tries EXCEPT ![i] = @ + 1]
    /\ \E o \in env.dl :
        /\ o # "ok" => FaultsUsed < env.faults
        /\ CASE o = "ok" ->
                  /\ files' = files \cup {VideoFile(i)}
                  /\ pc' = [pc EXCEPT ![i] = "convert"]
                  /\ UNCHANGED <<attempt, exc, result, finished_futures>>
             [] o = "nofile" ->
                  IF Listed(i, files) # {}
                  THEN /\ pc' = [pc EXCEPT ![i] = "convert"]
                       /\ UNCHANGED <<attempt, exc, result, files, finished_futures>>
                  ELSE /\ NextRound(i, files)
                       /\ UNCHANGED exc
             [] OTHER ->
                  /\ \E partial \in env.partial :
                        files' = IF partial THEN files \cup {PartFile(i)} ELSE files
                  /\ exc' = [exc EXCEPT ![i] = o]
                  /\ pc' = [pc EXCEPT ![i] = "except"]
                  /\ UNCHANGED <<attempt, result, finished_futures>>
    /\ UNCHANGED <<waits, delay>>
    /\ UNCHANGED <<cfgVars, sideVars, procVars, stage, yielded, downloaded_files, output>>

\* video_path is downloaded_files[0], any one of the listed files, since
\* os.listdir has no order; VideoFileClip, write_audiofile,
\* os.remove(video_path): the other listed files stay
Convert(i) ==
    /\ pc[i] = "convert"
    /\ \E video_path \in Listed(i, files) : \E o \in env.cv :
        /\ o # "ok" => FaultsUsed < env.faults
        /\ IF o = "ok"
           THEN /\ files' = (files \ {video_path}) \cup {SongFile(i)}
                /\ result' = [result EXCEPT ![i] = SongFile(i)]
                /\ pc' = [pc EXCEPT ![i] = "done"]
                /\ finished_futures' = Append(finished_futures, i)
                /\ UNCHANGED exc
           ELSE /\ \E partial \in env.partial :
                      files' = (files \ {video_path})
                                 \cup (IF partial THEN {SongFile(i)} ELSE {})
                /\ exc' = [exc EXCEPT ![i] = o]
                /\ pc' = [pc EXCEPT ![i] = "except"]
                /\ UNCHANGED <<result, finished_futures>>
    /\ UNCHANGED <<attempt, tries, waits, delay>>
    /\ UNCHANGED <<cfgVars, sideVars, procVars, stage, yielded, downloaded_files, output>>

\* the outer except clause: compute the delay, sleep, go round the loop
Backoff(i) ==
    /\ pc[i] = "except"
    /\ \E jitter \in env.jitter :
          delay' = [delay EXCEPT ![i] = BackoffDelay(attempt[i], jitter)]
    /\ waits' = [waits EXCEPT ![i] = @ + 1]
    /\ exc' = [exc EXCEPT ![i] = "none"]
    /\ NextRound(i, files)
    /\ UNCHANGED tries
    /\ UNCHANGED <<cfgVars, sideVars, procVars, stage, yielded, downloaded_files, output>>

(***************************************************************************)
(* download_all_audio                                                      *)
(***************************************************************************)
\* the calls executor.submit has not been called for yet
Unsubmitted == {i \in Refs : pc[i] = "new"}

\* os.makedirs(download_path, exist_ok=True) and the cleaning of the
\* directory, before the pool exists: an entry whose os.remove raises is
\* logged and stays
CleanDirectory ==
    /\ stage = "start"
    /\ scratch' = TRUE
    /\ \E kept \in SUBSET files : files' = kept
    /\ stage' = IF Unsubmitted = {} THEN "collect" ELSE "submit"
    /\ invoked' = invoked \cup {"download_all_audio"}
    /\ UNCHANGED <<pc, attempt, tries, waits, delay, exc, result, finished_futures>>
    /\ UNCHANGED <<cfgVars, sideVars, yielded, downloaded_files, output>>
    /\ UNCHANGED <<outcomes, reported>>

\* one executor.submit of the comprehension, in the order of enumerate: the
\* call is queued and the workers go on while the next one is submitted; after
\* the last one the caller enters as_completed
Submit ==
    /\ stage = "submit"
    /\ Unsubmitted # {}
    /\ LET i == CHOOSE j \in Unsubmitted : \A k \in Unsubmitted : j <= k IN
        /\ pc' = [pc EXCEPT ![i] = "queued"]
        /\ stage' = IF Unsubmitted = {i} THEN "collect" ELSE "submit"
    /\ UNCHANGED <<attempt, tries, waits, delay, exc, result, files, finished_futures>>
    /\ UNCHANGED <<cfgVars, sideVars, procVars, yielded, downloaded_files, output>>

\* a slip: every result is kept
Forwarded_All(i) == TRUE

\* audio_file and os.path.exists(audio_file)
Forwarded(i) == result[i] # NoneV /\ result[i] \in files

\* the orders in which the elements of s can be arranged
Orderings(s) == {[k \in 1..Len(s) |-> s[p[k]]] : p \in Permutations(1..Len(s))}

\* what as_completed yields next: the futures that had finished when it was
\* entered come first, in the iteration order of a set, that is in any
\* order; the futures that finish later follow in completion order
YieldOrders == IF yielded = {} THEN Orderings(finished_futures) ELSE {finished_futures}

\* one round of the as_completed loop; the first round is the entry
Collect ==
    /\ stage = "collect"
    /\ finished_futures # <<>>
    /\ \E order \in YieldOrders : LET i == Head(order) IN
        /\ finished_futures' = Tail(order)
        /\ yielded' = yielded \cup {i}
        /\ downloaded_files' = IF Forwarded(i)
                               THEN Append(downloaded_files, result[i])
                               ELSE downloaded_files
    /\ UNCHANGED <<pc, attempt, tries, waits, delay, exc, result, files>>
    /\ UNCHANGED <<cfgVars, sideVars, procVars, stage, output>>

\* a slip: the loop is left after the first future
AllYielded_First == yielded # {}

\* as_completed is exhausted once it has yielded every future
AllYielded == yielded = Refs

\* the with block ends and download_all_audio returns
Return ==
    /\ stage = "collect"
    /\ AllYielded
    /\ stage' = "returned"
    /\ UNCHANGED <<fetchVars, cfgVars, sideVars, procVars, yielded, downloaded_files, output>>

(***************************************************************************)
(* create_mashup                                                           *)
(***************************************************************************)
OutputFile == <<"mashup", 0>>

NoOutput == [ret |-> NoneV, written |-> FALSE, samples |-> <<>>, samplerate |-> 0]

\* what the conversion may leave behind: a file as long as the excerpt, a
\* shorter one, one without frames, one that cannot be read
Playable == [loadable |-> TRUE, len |-> PipelineTrim, rate |-> 1, channels |-> 2]
Brief == [loadable |-> TRUE, len |-> 1, rate |-> 1, channels |-> 2]
Silent == [loadable |-> TRUE, len |-> 0, rate |-> 1, channels |-> 1]
Unreadable == [loadable |-> FALSE, len |-> 0, rate |-> 1, channels |-> 1]

\* s[:k]
PySlice(s, k) ==
    IF k >= 0 THEN SubSeq(s, 1, Min(k, Len(s)))
    ELSE SubSeq(s, 1, Max(0, Len(s) + k))

\* sf.read(file) does not raise: a song file decodes; the file at the output
\* path is there once sf.write has written it
Loadable(file) ==
    IF file = OutputFile THEN output.written ELSE media[file[2]].loadable

\* sf.read(file): the frames of the artifact and its sample rate; the file
\* at the output path holds what sf.write wrote last, mono
ReadAudio(file) ==
    IF file = OutputFile
    THEN [frames |-> output.samples, ndim |-> 1, samplerate |-> output.samplerate]
    ELSE LET a == media[file[2]] IN
         [frames |-> [k \in 1..a.len |-> <<file[2], k>>],
          ndim |-> IF a.channels > 1 THEN 2 ELSE 1,
          samplerate |-> a.rate]

\* if audio.ndim > 1: audio = np.mean(audio, axis=1)
MonoFold(audio) ==
    IF audio.ndim > 1 THEN [audio EXCEPT !.ndim = 1] ELSE audio

\* len(audio) / samplerate < total_trim_duration_per_file
ShorterThanTrim(nframes, samplerate, d) == nframes < d * samplerate

\* a slip: one frame too many
TrimPart_OneMore(frames, samplerate, d) ==
    IF ShorterThanTrim(Len(frames), samplerate, d)
    THEN frames
    ELSE PySlice(frames, d * samplerate + 1)

\* the excerpt kept of one artifact
TrimPart(frames, samplerate, d) ==
    IF ShorterThanTrim(Len(frames), samplerate, d)
    THEN frames
    ELSE PySlice(frames, d * samplerate)

\* the loop over audio_files, from position k on; a file that cannot be
\* read raises inside the try and is skipped
RECURSIVE MashupLoop(_, _, _, _)
MashupLoop(audio_files, k, acc, d) ==
    IF k > Len(audio_files) THEN acc
    ELSE IF ~Loadable(audio_files[k])
         THEN MashupLoop(audio_files, k + 1, acc, d)
         ELSE LET rd == ReadAudio(audio_files[k])
                  sr == IF acc.samplerate = 0 THEN rd.samplerate ELSE acc.samplerate
                  audio == MonoFold(rd)
                  part == TrimPart(audio.frames, sr, d)
              IN MashupLoop(audio_files, k + 1,
                            [isNone |-> FALSE, mashup |-> acc.mashup \o part,
                             samplerate |-> sr], d)

\* a slip: only the None test
NothingProcessed_NoneOnly(acc) == acc.isNone

\* mashup is None or len(mashup) == 0
NothingProcessed(acc) == acc.isNone \/ Len(acc.mashup) = 0

\* the comparison with expected_mashup_duration and the truncation
FinalTrim(mashup, samplerate, d, count) ==
    LET expected_mashup_duration == d * count IN
    IF Len(mashup) < expected_mashup_duration * samplerate
    THEN mashup
    ELSE PySlice(mashup, expected_mashup_duration * samplerate)

\* a slip: the mashup of the call before is kept as the start of the next
InitialMashup_Kept ==
    [isNone |-> ~output.written, mashup |-> output.samples,
     samplerate |-> output.samplerate]

\* mashup = None, samplerate = None
InitialMashup == [isNone |-> TRUE, mashup |-> <<>>, samplerate |-> 0]

create_mashup(audio_files, d) ==
    LET acc == MashupLoop(audio_files, 1, InitialMashup, d) IN
    IF NothingProcessed(acc)
    THEN NoOutput
    ELSE [ret |-> OutputFile, written |-> TRUE,
          samples |-> FinalTrim(acc.mashup, acc.samplerate, d, Len(audio_files)),
          samplerate |-> acc.samplerate]

(***************************************************************************)
(* create_mashup_process                                                   *)
(***************************************************************************)
ZipFile == <<"zip", 0>>

\* what the pipeline may report when it ends
FixedOutcomes ==
    {"success", "no_sources_found", "no_sources_downloadable",
     "assembly_failed", "delivery_failed"}

\* a slip: the directory is removed only when it is empty
ExitScratch_IfEmpty(fs) == fs

\* the end of the with block: TemporaryDirectory removes the directory and
\* everything in it
ExitScratch(fs) == {}

\* the directory is gone when nothing is left in it
ScratchLeft(fs) == fs # {}

\* not videos
NoVideos(n) == n = 0

\* a slip: the list of audio files is never tested
NothingDownloaded_Never == FALSE

\* not audio_files
NothingDownloaded == downloaded_files = <<>>

\* Duration: {trim_duration * len(audio_files)} seconds.
ReportedDuration == trim_duration * Len(downloaded_files)

\* get_youtube_links returns n videos; without videos the run ends, otherwise
\* the temporary directory is created
Resolve ==
    /\ stage = "process"
    /\ \E n \in env.refs :
        /\ IF NoVideos(n)
           THEN /\ outcomes' = Append(outcomes, "no_sources_found")
                /\ stage' = "no_videos"
                /\ invoked' = invoked \cup {"resolver"}
                /\ UNCHANGED <<video_urls, media, pc, attempt, tries, waits, delay,
                               exc, result, scratch>>
           ELSE /\ video_urls' = [i \in 1..n |-> i]
                /\ \E m \in [1..n -> env.media] : media' = m
                /\ pc' = [i \in 1..n |-> "new"]
                /\ attempt' = [i \in 1..n |-> 0]
                /\ tries' = [i \in 1..n |-> 0]
                /\ waits' = [i \in 1..n |-> 0]
                /\ delay' = [i \in 1..n |-> 0]
                /\ exc' = [i \in 1..n |-> "none"]
                /\ result' = [i \in 1..n |-> Pending]
                /\ scratch' = TRUE
                /\ invoked' = invoked \cup {"resolver", "tempdir"}
                /\ stage' = "start"
                /\ UNCHANGED outcomes
    /\ UNCHANGED <<num_cores, env, trim_duration, files, finished_futures, yielded,
                   downloaded_files, output, reported, sideVars>>

\* nothing was downloaded: the run ends
AbandonNoAudio ==
    /\ stage = "returned"
    /\ NothingDownloaded
    /\ outcomes' = Append(outcomes, "no_sources_downloadable")
    /\ stage' = "no_audio"
    /\ files' = ExitScratch(files)
    /\ scratch' = ScratchLeft(files')
    /\ UNCHANGED <<pc, attempt, tries, waits, delay, exc, result, finished_futures>>
    /\ UNCHANGED <<cfgVars, sideVars, yielded, downloaded_files, output>>
    /\ UNCHANGED <<invoked, reported>>

\* create_mashup on what download_all_audio returned; without a mashup the
\* run ends
Assemble ==
    /\ stage = "returned"
    /\ ~NothingDownloaded
    /\ output' = create_mashup(downloaded_files, trim_duration)
    /\ invoked' = invoked \cup {"create_mashup"}
    /\ IF output'.ret = NoneV
       THEN /\ outcomes' = Append(outcomes, "assembly_failed")
            /\ stage' = "no_mashup"
            /\ files' = ExitScratch(files)
            /\ scratch' = ScratchLeft(files')
       ELSE /\ stage' = "assembled"
            /\ files' = files \cup {OutputFile}
            /\ UNCHANGED <<outcomes, scratch>>
    /\ UNCHANGED <<pc, attempt, tries, waits, delay, exc, result, finished_futures>>
    /\ UNCHANGED <<cfgVars, sideVars, yielded, downloaded_files, reported>>

\* create_zip_file; an exception leaves the with block and is reported by
\* the except clause of create_mashup_process
Package ==
    /\ stage = "assembled"
    /\ invoked' = invoked \cup {"zip"}
    /\ \E z \in env.zip :
        IF z = "ok"
        THEN /\ files' = files \cup {ZipFile}
             /\ stage' = "zipped"
             /\ UNCHANGED <<outcomes, scratch>>
        ELSE /\ files' = ExitScratch(files)
             /\ scratch' = ScratchLeft(files')
             /\ outcomes' = Append(outcomes, "error")
             /\ stage' = "error"
    /\ UNCHANGED <<pc, attempt, tries, waits, delay, exc, result, finished_futures>>
    /\ UNCHANGED <<cfgVars, sideVars, yielded, downloaded_files, output, reported>>

\* the body of the email, send_email, the report and the end of the run
SendEmail ==
    /\ stage = "zipped"
    /\ invoked' = invoked \cup {"email"}
    /\ reported' = ReportedDuration
    /\ \E email_sent \in env.mail :
        /\ outcomes' = Append(outcomes, IF email_sent THEN "success"
                                        ELSE "delivery_failed")
        /\ stage' = IF email_sent THEN "sent" ELSE "send_failed"
    /\ files' = ExitScratch(files)
    /\ scratch' = ScratchLeft(files')
    /\ UNCHANGED <<pc, attempt, tries, waits, delay, exc, result, finished_futures>>
    /\ UNCHANGED <<cfgVars, sideVars, yielded, downloaded_files, output>>

\* a direct call of create_mashup(audio_files, output_file, trim_duration)
CallCreateMashup ==
    /\ stage = "call"
    /\ output' = create_mashup(downloaded_files, trim_duration)
    /\ files' = IF output'.written THEN files \cup {OutputFile} ELSE files
    /\ stage' = "called"
    /\ UNCHANGED <<pc, attempt, tries, waits, delay, exc, result, finished_futures>>
    /\ UNCHANGED <<cfgVars, sideVars, procVars, yielded, downloaded_files>>

\* a second call of create_mashup with the same arguments, in the state the
\* first call left: its output file is there, is read if its path is among
\* audio_files, and is overwritten
CallAgain ==
    /\ stage = "called"
    /\ previous' = output
    /\ output' = create_mashup(downloaded_files, trim_duration)
    /\ files' = IF output'.written THEN files \cup {OutputFile} ELSE files
    /\ stage' = "called_twice"
    /\ UNCHANGED <<pc, attempt, tries, waits, delay, exc, result, finished_futures>>
    /\ UNCHANGED <<cfgVars, procVars, yielded, downloaded_files>>
    /\ UNCHANGED <<request, response, dir_listing, matched, logVars>>

(***************************************************************************)
(* your_streamlit_app.py: create_mashup and the block of the button        *)
(***************************************************************************)
\* the loop over audio_files, from position k on: audio[:ms] of every file;
\* the first file that cannot be processed ends the function with None
RECURSIVE SegmentLoop(_, _, _, _)
SegmentLoop(audio_files, k, mashup, d) ==
    IF k > Len(audio_files) THEN [failed |-> FALSE, mashup |-> mashup]
    ELSE IF ~media[audio_files[k][2]].loadable
         THEN [failed |-> TRUE, mashup |-> <<>>]
         ELSE LET rd == ReadAudio(audio_files[k])
                  part == PySlice(rd.frames, d * rd.samplerate)
              IN SegmentLoop(audio_files, k + 1, mashup \o part, d)

\* create_mashup of the Streamlit variant; the mashup is exported also when
\* it is empty
segment_mashup(audio_files, d) ==
    LET r == SegmentLoop(audio_files, 1, <<>>, d) IN
    IF r.failed THEN NoOutput
    ELSE [ret |-> OutputFile, written |-> TRUE,
          samples |-> PySlice(r.mashup, d * Len(audio_files)),
          samplerate |-> 1]

\* /tmp/mashup_copy.mp3
CopyFile == <<"copy", 0>>

\* the block of the button from the return of download_all_audio on:
\* create_mashup, os.path.getsize(mashup_file), the copy that nothing
\* removes, the zip file, which stays when writing it fails, the email with
\* trim_duration * num_videos in its
\* body and the removal of the mashup, the zip file and the audio files;
\* nothing in the block catches; num_videos is the count that was asked for
StreamlitButton ==
    /\ stage = "st_button"
    /\ IF downloaded_files = <<>>
       THEN /\ outcomes' = Append(outcomes, "no_sources_downloadable")
            /\ stage' = "st_no_audio"
            /\ UNCHANGED <<output, invoked, files, reported>>
       ELSE /\ output' = segment_mashup(downloaded_files, trim_duration)
            /\ IF output'.ret = NoneV
               THEN /\ outcomes' = Append(outcomes, "unhandled_exception")
                    /\ stage' = "st_raised"
                    /\ invoked' = invoked \cup {"create_mashup"}
                    /\ UNCHANGED <<files, reported>>
               ELSE \E z \in env.zip :
                      IF z = "ok"
                      THEN /\ outcomes' = outcomes
                           /\ stage' = "st_done"
                           /\ invoked' = invoked \cup {"create_mashup", "zip", "email"}
                           /\ \E num_videos \in Len(downloaded_files)..ButtonFiles :
                                 reported' = trim_duration * num_videos
                           /\ files' = (files \cup {CopyFile})
                                          \ {downloaded_files[k] :
                                                k \in 1..Len(downloaded_files)}
                      ELSE /\ outcomes' = Append(outcomes, "unhandled_exception")
                           /\ stage' = "st_raised"
                           /\ invoked' = invoked \cup {"create_mashup", "zip"}
                           /\ \E zip_created \in BOOLEAN :
                                 files' = files \cup {OutputFile, CopyFile}
                                            \cup IF zip_created THEN {ZipFile} ELSE {}
                           /\ UNCHANGED reported
    /\ UNCHANGED <<pc, attempt, tries, waits, delay, exc, result, finished_futures>>
    /\ UNCHANGED <<cfgVars, sideVars, yielded, downloaded_files, scratch>>

(***************************************************************************)
(* 102203810.py: main from the creation of temp_audio_files on             *)
(***************************************************************************)
\* ffmpeg -t trim_duration of every file and the concatenation of the parts
RECURSIVE ffmpeg_concat(_, _, _)
ffmpeg_concat(audio_files, k, d) ==
    IF k > Len(audio_files) THEN <<>>
    ELSE LET rd == ReadAudio(audio_files[k])
         IN PySlice(rd.frames, d * rd.samplerate) \o ffmpeg_concat(audio_files, k + 1, d)

\* os.rmdir raises OSError for a directory that is not empty
RmdirFails(left) == left # {}

cliFetchUnchanged == <<attempt, waits, delay, exc, cfgVars, sideVars, procVars, stage,
                       yielded, downloaded_files, output>>

\* os.makedirs(temp_dir) and search_youtube_videos: extract_info raises and
\* the except clause of main exits, or n URLs are returned; sys.exit(1)
\* without videos
CliSearch ==
    /\ stage = "cli_main"
    /\ scratch' = TRUE
    /\ \/ /\ outcomes' = Append(outcomes, "error")
          /\ stage' = "cli_raised"
          /\ invoked' = invoked \cup {"tempdir", "resolver"}
          /\ UNCHANGED <<video_urls, media, pc, tries, result>>
       \/ \E n \in env.refs :
            IF NoVideos(n)
            THEN /\ outcomes' = Append(outcomes, "no_sources_found")
                 /\ stage' = "cli_exit1"
                 /\ invoked' = invoked \cup {"tempdir", "resolver"}
                 /\ UNCHANGED <<video_urls, media, pc, tries, result>>
            ELSE /\ video_urls' = [i \in 1..n |-> i]
                 /\ media' = [i \in 1..n |-> Playable]
                 /\ pc' = [i \in 1..n |-> "new"]
                 /\ tries' = [i \in 1..n |-> 0]
                 /\ result' = [i \in 1..n |-> Pending]
                 /\ stage' = "cli_download"
                 /\ invoked' = invoked \cup {"tempdir", "resolver", "download_all_audio"}
                 /\ UNCHANGED outcomes
    /\ attempt' = [i \in DOMAIN pc' |-> 0]
    /\ waits' = [i \in DOMAIN pc' |-> 0]
    /\ delay' = [i \in DOMAIN pc' |-> 0]
    /\ exc' = [i \in DOMAIN pc' |-> "none"]
    /\ UNCHANGED <<num_cores, env, trim_duration, files, finished_futures, yielded,
                   downloaded_files, output, reported, sideVars>>

\* one executor.submit of download_all_audio of the CLI, in the order of
\* enumerate; the workers go on while the next call is submitted
CliSubmit ==
    /\ stage = "cli_download"
    /\ Unsubmitted # {}
    /\ LET i == CHOOSE j \in Unsubmitted : \A k \in Unsubmitted : j <= k IN
        pc' = [pc EXCEPT ![i] = "queued"]
    /\ UNCHANGED <<tries, result, files, finished_futures>>
    /\ UNCHANGED cliFetchUnchanged

\* download_single_audio of the CLI: one attempt; yt-dlp writes
\* song_<index>.<ext> and the postprocessor turns it into song_<index>.mp3;
\* an exception may leave the file of the download behind; the pool runs the
\* oldest num_cores unfinished calls
CliFetch(i) ==
    /\ stage = "cli_download"
    /\ pc[i] = "queued"
    /\ Cardinality({j \in Queued : j < i}) < num_cores
    /\ tries' = [tries EXCEPT ![i] = @ + 1]
    /\ pc' = [pc EXCEPT ![i] = "done"]
    /\ finished_futures' = Append(finished_futures, i)
    /\ \E o \in env.dl :
        CASE o = "ok" ->
               /\ files' = files \cup {SongFile(i)}
               /\ result' = [result EXCEPT ![i] = SongFile(i)]
          [] o = "nofile" ->
               /\ files' = files
               /\ result' = [result EXCEPT ![i] = NoneV]
          [] OTHER ->
               /\ \E partial \in env.partial :
                     files' = IF partial THEN files \cup {VideoFile(i)} ELSE files
               /\ result' = [result EXCEPT ![i] = NoneV]
    /\ UNCHANGED cliFetchUnchanged

\* one round of the as_completed loop of the CLI: a result that is a path is
\* kept
CliCollect ==
    /\ stage = "cli_download"
    /\ Unsubmitted = {}
    /\ finished_futures # <<>>
    /\ \E order \in YieldOrders : LET i == Head(order) IN
        /\ finished_futures' = Tail(order)
        /\ yielded' = yielded \cup {i}
        /\ downloaded_files' = IF result[i] # NoneV
                               THEN Append(downloaded_files, result[i])
                               ELSE downloaded_files
    /\ UNCHANGED <<pc, attempt, tries, waits, delay, exc, result, files>>
    /\ UNCHANGED <<cfgVars, sideVars, procVars, stage, output>>

\* download_all_audio of the CLI returns; sys.exit(1) without audio files
CliReturn ==
    /\ stage = "cli_download"
    /\ AllYielded
    /\ IF NothingDownloaded
       THEN /\ outcomes' = Append(outcomes, "no_sources_downloadable")
            /\ stage' = "cli_exit1"
       ELSE /\ stage' = "cli_mashup"
            /\ UNCHANGED outcomes
    /\ UNCHANGED <<fetchVars, cfgVars, sideVars, yielded, downloaded_files, output>>
    /\ UNCHANGED <<invoked, scratch, reported>>

\* create_mashup_ffmpeg, whose trimmed files and list file are removed again,
\* and print(f"Mashup created successfully: {output_file}")
CliMashup ==
    /\ stage = "cli_mashup"
    /\ output' = [ret |-> OutputFile, written |-> TRUE,
                   samples |-> ffmpeg_concat(downloaded_files, 1, trim_duration),
                   samplerate |-> 1]
    /\ invoked' = invoked \cup {"create_mashup"}
    /\ outcomes' = Append(outcomes, "success")
    /\ stage' = "cli_cleanup"
    /\ UNCHANGED <<fetchVars, cfgVars, sideVars, yielded, downloaded_files>>
    /\ UNCHANGED <<scratch, reported>>

\* the removal of the audio files and os.rmdir(temp_dir), whose OSError ends
\* in the except clause of main: message and sys.exit(1)
CliCleanup ==
    /\ stage = "cli_cleanup"
    /\ LET left == files \ {downloaded_files[k] : k \in 1..Len(downloaded_files)} IN
        /\ files' = left
        /\ IF RmdirFails(left)
           THEN /\ outcomes' = Append(outcomes, "error")
                /\ stage' = "cli_raised"
                /\ UNCHANGED scratch
           ELSE /\ stage' = "cli_exit0"
                /\ scratch' = FALSE
                /\ UNCHANGED outcomes
    /\ UNCHANGED <<pc, attempt, tries, waits, delay, exc, result, finished_futures>>
    /\ UNCHANGED <<cfgVars, sideVars, yielded, downloaded_files, output>>
    /\ UNCHANGED <<invoked, reported>>

(***************************************************************************)
(* log_queue and the /logs route                                           *)
(***************************************************************************)
\* the threads that put messages: two pipelines started by create_mashup_route
LogThreads == {1, 2}

\* log_queue = queue.Queue(); nothing put, no stream opened
InitLogQueue ==
    /\ log_queue = <<>>
    /\ produced = [t \in LogThreads |-> 0]
    /\ streams = <<>>
    /\ dropped = {}

logUnchanged == <<fetchVars, cfgVars, procVars, stage, yielded, downloaded_files, output,
                  request, response, dir_listing, matched, previous>>

\* log_queue.put(message) by thread t; the message is named by its thread and
\* its number
Put(t) ==
    /\ stage = "logs"
    /\ produced[t] < MaxMsgs
    /\ produced' = [produced EXCEPT ![t] = @ + 1]
    /\ log_queue' = Append(log_queue, <<t, produced[t] + 1>>)
    /\ UNCHANGED <<streams, dropped>>
    /\ UNCHANGED logUnchanged

\* GET /logs: a client connects and its generator starts
Connect ==
    /\ stage = "logs"
    /\ Len(streams) < MaxStreams
    /\ streams' = Append(streams, [connected |-> TRUE, alive |-> TRUE, held |-> <<>>,
                                   received |-> <<>>])
    /\ UNCHANGED <<log_queue, produced, dropped>>
    /\ UNCHANGED logUnchanged

\* the client of stream c goes away; its generator is not told
Disconnect(c) ==
    /\ stage = "logs"
    /\ streams[c].connected
    /\ streams' = [streams EXCEPT ![c].connected = FALSE]
    /\ UNCHANGED <<log_queue, produced, dropped>>
    /\ UNCHANGED logUnchanged

\* log_message = log_queue.get() in the generator of stream c
Get(c) ==
    /\ stage = "logs"
    /\ streams[c].alive
    /\ streams[c].held = <<>>
    /\ log_queue # <<>>
    /\ streams' = [streams EXCEPT ![c].held = <<Head(log_queue)>>]
    /\ log_queue' = Tail(log_queue)
    /\ UNCHANGED <<produced, dropped>>
    /\ UNCHANGED logUnchanged

\* yield f"data: {log_message}\n\n": the message is written to the client; a
\* write to a client that went away is lost: it fails and the generator is
\* closed, or it still goes into the buffer of the connection and the
\* generator goes on to the next log_queue.get()
Yield(c) ==
    /\ stage = "logs"
    /\ streams[c].held # <<>>
    /\ IF streams[c].connected
       THEN /\ streams' = [streams EXCEPT ![c].held = <<>>,
                                          ![c].received = @ \o streams[c].held]
            /\ UNCHANGED dropped
       ELSE /\ \E write_fails \in BOOLEAN :
                  streams' = [streams EXCEPT ![c].held = <<>>,
                                             ![c].alive = ~write_fails]
            /\ dropped' = dropped \cup {streams[c].held[1]}
    /\ UNCHANGED <<log_queue, produced>>
    /\ UNCHANGED logUnchanged

(***************************************************************************)
(* create_mashup_route                                                     *)
(***************************************************************************)
\* a form field: absent from the form, or its text, one character per element
Absent == [given |-> FALSE, text |-> <<>>]
Field(t) == [given |-> TRUE, text |-> t]

NoRequest == [singer_name |-> Absent, num_videos |-> Absent,
              trim_duration |-> Absent, receiver_email |-> Absent]
NoResponse == [status |-> "none", message |-> "none", started |-> FALSE, args |-> <<>>]

DigitVal == [c \in {"0", "1", "2", "5"} |->
               IF c = "0" THEN 0 ELSE IF c = "1" THEN 1 ELSE IF c = "2" THEN 2 ELSE 5]

IsDigits(t) == Len(t) > 0 /\ \A k \in 1..Len(t) : t[k] \in DOMAIN DigitVal

RECURSIVE DecimalValue(_)
DecimalValue(t) ==
    IF t = <<>> THEN 0
    ELSE 10 * DecimalValue(SubSeq(t, 1, Len(t) - 1)) + DigitVal[t[Len(t)]]

\* int(text): an optional sign and decimal digits, ValueError otherwise
ParseInt(t) ==
    IF t # <<>> /\ t[1] \in {"-", "+"}
    THEN IF IsDigits(Tail(t))
         THEN [ok |-> TRUE,
               val |-> IF t[1] = "-" THEN -DecimalValue(Tail(t))
                       ELSE DecimalValue(Tail(t))]
         ELSE [ok |-> FALSE, val |-> 0]
    ELSE IF IsDigits(t) THEN [ok |-> TRUE, val |-> DecimalValue(t)]
         ELSE [ok |-> FALSE, val |-> 0]

\* int(request.form.get(name, default))
FormInt(f, default) == IF f.given THEN ParseInt(f.text) ELSE [ok |-> TRUE, val |-> default]

\* the truth value of request.form.get(name): None and "" are false
Truthy(f) == f.given /\ f.text # <<>>

\* \w and [\w\.-] on the characters of the model
WordChar(c) == c = "w"
NameChar(c) == c \in {"w", ".", "-"}

\* re.match(r'^[\w\.-]+@[\w\.-]+\.\w+$', email) is not None
is_valid_email(email) ==
    \E a \in 1..Len(email) : \E d \in 1..Len(email) :
        /\ 1 < a /\ a + 1 < d /\ d < Len(email)
        /\ email[a] = "@"
        /\ email[d] = "."
        /\ \A k \in 1..(a - 1) : NameChar(email[k])
        /\ \A k \in (a + 1)..(d - 1) : NameChar(email[k])
        /\ \A k \in (d + 1)..Len(email) : WordChar(email[k])

ErrorResponse(m) == [status |-> "error", message |-> m, started |-> FALSE, args |-> <<>>]

\* f"Error in create_mashup_route: {str(e)}", put by the thread of the handler
RouteErrorMessage == <<0, 1>>

\* the handler of POST /create_mashup; int() raising ValueError ends in the
\* except clause, which logs and answers with the error
create_mashup_route ==
    /\ stage = "route"
    /\ LET n == FormInt(request.num_videos, default_num_videos)
           t == FormInt(request.trim_duration, default_trim_duration)
       IN response' =
            IF ~n.ok \/ ~t.ok THEN ErrorResponse("An error occurred")
            ELSE IF ~(Truthy(request.singer_name) /\ Truthy(request.receiver_email))
            THEN ErrorResponse("Missing required fields")
            ELSE IF ~is_valid_email(request.receiver_email.text)
            THEN ErrorResponse("Invalid email address")
            ELSE [status |-> "success", message |-> "started", started |-> TRUE,
                  args |-> <<n.val, t.val>>]
    /\ log_queue' = IF response'.message = "An error occurred"
                     THEN Append(log_queue, RouteErrorMessage)
                     ELSE log_queue
    /\ stage' = "responded"
    /\ UNCHANGED <<fetchVars, cfgVars, procVars, yielded, downloaded_files, output>>
    /\ UNCHANGED <<request, dir_listing, matched, previous, produced, streams, dropped>>

(***************************************************************************)
(* The file names of download_single_audio                                 *)
(***************************************************************************)
\* no fetch of the directory is under way
NoListing == <<>>

\* a call of download_single_audio at ydl.download, in any of its attempts
Downloading == [pc |-> "ydl", found |-> {}]

RECURSIVE Decimal(_)
\* str(index): the decimal digits of a positive integer, one per element
Decimal(n) ==
    LET digit == <<"0", "1", "2", "3", "4", "5", "6", "7", "8", "9">>[(n % 10) + 1]
    IN IF n < 10 THEN <<digit>> ELSE Append(Decimal(n \div 10), digit)

\* s.startswith(prefix)
StartsWith(s, prefix) ==
    Len(prefix) <= Len(s) /\ SubSeq(s, 1, Len(prefix)) = prefix

\* the parts of the names yt-dlp chooses: a container, the mark of a
\* partial download, a digit
ExtTokens == {"mp4", "part", "0"}

\* what yt-dlp puts in the place of %(ext)s for the file and for its
\* temporary files: one part, or a part, a dot and the mark of a partial
\* download
Exts == {<<a>> : a \in ExtTokens} \cup {<<a, ".", "part">> : a \in ExtTokens}

\* f'video_{index}.%(ext)s'
VideoName(index, ext) == <<"video_">> \o Decimal(index) \o <<".">> \o ext

\* f'song_{index}.wav'
SongName(index) == <<"song_">> \o Decimal(index) \o <<".", "wav">>

\* a slip: the prefix ends with the ordinal
VideoPrefix_NoDot(index) == <<"video_">> \o Decimal(index)

\* f"video_{index}."
VideoPrefix(index) == <<"video_">> \o Decimal(index) \o <<".">>

pathVars == <<fetchVars, cfgVars, procVars, stage, yielded, downloaded_files, output,
              request, response, previous, logVars>>

\* ydl.download of the fetch of ordinal i writes a file
YdlWrite(i) ==
    /\ stage = "paths"
    /\ matched[i].pc = "ydl"
    /\ Cardinality(dir_listing) < MaxDirFiles
    /\ \E e \in Exts :
          dir_listing' = dir_listing \cup {[name |-> VideoName(i, e), by |-> i]}
    /\ UNCHANGED matched
    /\ UNCHANGED pathVars

\* ydl.download of the fetch of ordinal i removes a temporary file it wrote
YdlRemove(i) ==
    /\ stage = "paths"
    /\ matched[i].pc = "ydl"
    /\ \E f \in dir_listing :
          /\ f.by = i
          /\ f.name # SongName(i)
          /\ dir_listing' = {g \in dir_listing : g.name # f.name}
    /\ UNCHANGED matched
    /\ UNCHANGED pathVars

\* the fetch of ordinal i lists the directory; with nothing listed the
\* attempt ends and the next one downloads again
ListDir(i) ==
    /\ stage = "paths"
    /\ matched[i].pc = "ydl"
    /\ LET found == {f \in dir_listing : StartsWith(f.name, VideoPrefix(i))} IN
        matched' = [matched EXCEPT ![i] =
                       IF found = {} THEN Downloading
                       ELSE [pc |-> "listed", found |-> found]]
    /\ UNCHANGED dir_listing
    /\ UNCHANGED pathVars

\* the fetch of ordinal i converts downloaded_files[0], any file of its
\* listing, to its song file, removes the video and returns; a conversion
\* that raises removes the video as well, the song file written or not, and
\* the next attempt downloads again
ConvertListed(i) ==
    /\ stage = "paths"
    /\ matched[i].pc = "listed"
    /\ \E f \in matched[i].found :
        LET kept == {g \in dir_listing : g.name # f.name}
            song == [name |-> SongName(i), by |-> i]
        IN \/ /\ dir_listing' = kept \cup {song}
              /\ matched' = [matched EXCEPT ![i] = [pc |-> "done", found |-> {}]]
           \/ /\ \E written \in BOOLEAN :
                    dir_listing' = IF written THEN kept \cup {song} ELSE kept
              /\ matched' = [matched EXCEPT ![i] = Downloading]
    /\ UNCHANGED pathVars

(***************************************************************************)
(* Specifications                                                          *)
(***************************************************************************)
\* no request has been received, no directory has been listed
InitSide ==
    /\ request = NoRequest
    /\ response = NoResponse
    /\ dir_listing = {}
    /\ matched = NoListing
    /\ previous = NoOutput
    /\ InitLogQueue

\* no fetch has begun, nothing is written or reported
InitCalls(n) ==
    /\ video_urls = [i \in 1..n |-> i]
    /\ pc = [i \in 1..n |-> "new"]
    /\ attempt = [i \in 1..n |-> 0]
    /\ tries = [i \in 1..n |-> 0]
    /\ waits = [i \in 1..n |-> 0]
    /\ delay = [i \in 1..n |-> 0]
    /\ exc = [i \in 1..n |-> "none"]
    /\ result = [i \in 1..n |-> Pending]
    /\ finished_futures = <<>>
    /\ yielded = {}
    /\ output = NoOutput
    /\ outcomes = <<>>
    /\ reported = 0

\* and the directory is empty
InitRun(n) ==
    /\ InitCalls(n)
    /\ files = {}

InitState(n) == InitRun(n) /\ InitSide

\* the state in which download_all_audio is called with n references
InitFetch(n) ==
    /\ InitState(n)
    /\ invoked = {"resolver", "tempdir"}
    /\ scratch = TRUE
    /\ stage = "start"
    /\ downloaded_files = <<>>

\* the artifact the runs of the pipeline decode for ordinal i
PipelineArtifact(i) == [loadable |-> TRUE, len |-> i, rate |-> 1, channels |-> 2]

\* a batch of up to MaxRefs references on up to MaxCores cores, or of up to
\* LiveRefs references of which PartialFaults calls may fail and leave files
Init ==
    /\ \/ \E n \in 1..MaxRefs : InitFetch(n) /\ env = BatchEnv(max_attempts * n)
       \/ \E n \in 1..LiveRefs : InitFetch(n) /\ env = PartialEnv(PartialFaults)
    /\ num_cores \in 1..MaxCores
    /\ trim_duration = PipelineTrim
    /\ media = [i \in Refs |-> PipelineArtifact(i)]

Next ==
    \/ CleanDirectory
    \/ Submit
    \/ \E i \in Refs : StartFetch(i)
    \/ \E i \in Refs : Download(i)
    \/ \E i \in Refs : Convert(i)
    \/ \E i \in Refs : Backoff(i)
    \/ Collect
    \/ Return
    \/ AbandonNoAudio
    \/ Assemble
    \/ Package
    \/ SendEmail

Spec == Init /\ [][Next]_vars

\* a batch of up to LiveRefs references on up to MaxCores cores
InitLive ==
    /\ \E n \in 1..LiveRefs :
         /\ InitFetch(n)
         /\ env \in {BatchEnv(max_attempts * n), PartialEnv(PartialFaults)}
    /\ num_cores \in 1..MaxCores
    /\ trim_duration = PipelineTrim
    /\ media = [i \in Refs |-> PipelineArtifact(i)]

\* the threads of the pool and the caller keep running
FairSpec == InitLive /\ [][Next]_vars /\ WF_vars(Next)

\* one reference, every outcome of every call
InitSingle ==
    /\ InitFetch(1)
    /\ num_cores = 1
    /\ env = FullEnv
    /\ trim_duration = PipelineTrim
    /\ media \in [Refs -> {Brief, Silent, Unreadable}]

SpecFetch == InitSingle /\ [][Next]_vars

\* PoolRefs references of which at most PoolFaults calls fail, or a single
\* reference whose every call may fail, on up to PoolCores cores
InitPool ==
    /\ \/ InitFetch(PoolRefs) /\ env = BatchEnv(PoolFaults)
       \/ InitFetch(1) /\ env = BatchEnv(max_attempts)
    /\ num_cores \in 1..PoolCores
    /\ trim_duration = PipelineTrim
    /\ media = [i \in Refs |-> PipelineArtifact(i)]

SpecPool == InitPool /\ [][Next]_vars

\* create_mashup_process is called; the resolver finds up to ProcRefs videos
InitProcess ==
    /\ InitState(0)
    /\ stage = "process"
    /\ downloaded_files = <<>>
    /\ invoked = {}
    /\ scratch = FALSE
    /\ num_cores \in 1..MaxCores
    /\ env = [BatchEnv(ProcFaults) EXCEPT !.refs = 0..ProcRefs,
                                          !.media = {Playable, Brief, Unreadable}]
    /\ trim_duration = PipelineTrim
    /\ media = <<>>

NextProcess == Resolve \/ Next

RECURSIVE Texts(_, _)
\* the texts of at most n characters of S
Texts(S, n) ==
    IF n = 0 THEN {<<>>}
    ELSE LET T == Texts(S, n - 1) IN T \cup {Append(t, c) : t \in T, c \in S}

EmailChars == {"w", ".", "@", " "}
NumVideosTexts == {<<"x">>, <<"5">>, <<"1", "0">>, <<"1", "1">>}
TrimDurationTexts == {<<>>, <<"-", "1">>, <<"2", "0">>, <<"2", "1">>}

\* a form arrives at POST /create_mashup
InitRoute ==
    /\ InitRun(0)
    /\ stage = "route"
    /\ downloaded_files = <<>>
    /\ invoked = {}
    /\ scratch = FALSE
    /\ num_cores = 1
    /\ env = BatchEnv(0)
    /\ trim_duration = 0
    /\ media = <<>>
    /\ request \in
         [singer_name : {Absent, Field(<<>>), Field(<<"w">>)},
          num_videos : {Absent} \cup {Field(t) : t \in NumVideosTexts},
          trim_duration : {Absent} \cup {Field(t) : t \in TrimDurationTexts},
          receiver_email : {Absent} \cup {Field(t) : t \in Texts(EmailChars, MaxEmail)}]
    /\ response = NoResponse
    /\ dir_listing = {}
    /\ matched = NoListing
    /\ previous = NoOutput
    /\ InitLogQueue

NextRoute == create_mashup_route

\* download_all_audio has cleaned the directory and submitted the fetches of
\* ordinals 1..MaxOrdinal, and each has a worker; the attempts of a fetch are
\* not counted
InitPaths ==
    /\ InitRun(0)
    /\ stage = "paths"
    /\ downloaded_files = <<>>
    /\ invoked = {}
    /\ scratch = TRUE
    /\ num_cores = MaxOrdinal
    /\ env = BatchEnv(0)
    /\ trim_duration = 0
    /\ media = <<>>
    /\ request = NoRequest
    /\ response = NoResponse
    /\ dir_listing = {}
    /\ matched = [i \in 1..MaxOrdinal |-> Downloading]
    /\ previous = NoOutput
    /\ InitLogQueue

NextPaths ==
    \/ \E i \in 1..MaxOrdinal : YdlWrite(i)
    \/ \E i \in 1..MaxOrdinal : YdlRemove(i)
    \/ \E i \in 1..MaxOrdinal : ListDir(i)
    \/ \E i \in 1..MaxOrdinal : ConvertListed(i)

SpecPaths == InitPaths /\ [][NextPaths]_vars

SpecRoute == InitRoute /\ [][NextRoute]_vars

SpecProcess == InitProcess /\ [][NextProcess]_vars

\* the button of the Streamlit variant was pressed and download_all_audio
\* has returned up to ButtonFiles files, which lie in the mkdtemp directory
InitStreamlit ==
    /\ InitCalls(0)
    /\ InitSide
    /\ invoked = {"resolver", "tempdir", "download_all_audio"}
    /\ scratch = TRUE
    /\ num_cores = 1
    /\ env = BatchEnv(0)
    /\ trim_duration \in 1..PipelineTrim
    /\ \E k \in 0..ButtonFiles : media \in [1..k -> {Playable, Brief, Silent, Unreadable}]
    /\ downloaded_files = [j \in DOMAIN media |-> SongFile(j)]
    /\ files = {SongFile(j) : j \in DOMAIN media}
    /\ stage = "st_button"

NextStreamlit == StreamlitButton

SpecStreamlit == InitStreamlit /\ [][NextStreamlit]_vars

\* the server runs, two pipelines are about to log
InitLogs ==
    /\ InitState(0)
    /\ invoked = {}
    /\ scratch = FALSE
    /\ num_cores = 1
    /\ env = BatchEnv(0)
    /\ trim_duration = 0
    /\ media = <<>>
    /\ downloaded_files = <<>>
    /\ stage = "logs"

NextLogs ==
    \/ \E t \in LogThreads : Put(t)
    \/ Connect
    \/ \E c \in DOMAIN streams : Disconnect(c)
    \/ \E c \in DOMAIN streams : Get(c)
    \/ \E c \in DOMAIN streams : Yield(c)

SpecLogs == InitLogs /\ [][NextLogs]_vars

\* main of the CLI has validated its arguments: trim_duration is greater
\* than min_trim_duration
InitCli ==
    /\ InitState(0)
    /\ invoked = {}
    /\ scratch = FALSE
    /\ num_cores \in 1..MaxCores
    /\ env = [BatchEnv(0) EXCEPT !.refs = 0..CliRefs, !.partial = BOOLEAN,
                                 !.dl = {"ok", "nofile", "transient"}]
    /\ trim_duration \in (min_trim_duration + 1)..(min_trim_duration + PipelineTrim)
    /\ media = <<>>
    /\ downloaded_files = <<>>
    /\ stage = "cli_main"

NextCli ==
    \/ CliSearch
    \/ CliSubmit
    \/ \E i \in Refs : CliFetch(i)
    \/ CliCollect
    \/ CliReturn
    \/ CliMashup
    \/ CliCleanup

SpecCli == InitCli /\ [][NextCli]_vars

\* a run of create_mashup_process or a run of main of the CLI
InitPipelines == InitProcess \/ InitCli

NextPipelines == NextProcess \/ NextCli

SpecPipelines == InitPipelines /\ [][NextPipelines]_vars

\* the inputs of a direct call of create_mashup
Corrupt == [loadable |-> FALSE, len |-> 0, rate |-> 1, channels |-> 1]

\* mono and stereo
Channels == {1, 2}

ArtifactSet ==
    {Corrupt} \cup [loadable : {TRUE}, len : 0..MaxLen, rate : 1..MaxRate,
                    channels : Channels]

\* the scenario of the specification: 25 s, 15 s and 30 s, excerpts of 20 s
ScenarioMedia ==
    <<[loadable |-> TRUE, len |-> 25, rate |-> 1, channels |-> 2],
      [loadable |-> TRUE, len |-> 15, rate |-> 1, channels |-> 2],
      [loadable |-> TRUE, len |-> 30, rate |-> 1, channels |-> 2]>>

InitMashup ==
    /\ InitState(0)
    /\ invoked = {}
    /\ scratch = TRUE
    /\ num_cores = 1
    /\ env = FullEnv
    /\ \/ /\ \E k \in 0..MaxFiles : media \in [1..k -> ArtifactSet]
          /\ trim_duration \in (0 - MaxNeg)..MaxDur
       \/ /\ media = ScenarioMedia
          /\ trim_duration = 20
    /\ downloaded_files = [j \in DOMAIN media |-> SongFile(j)]
    /\ stage = "call"

NextMashup == CallCreateMashup

SpecMashup == InitMashup /\ [][NextMashup]_vars

\* audio_files of a call: the k song files, or the k song files and the
\* path of the output file at one position
TwiceInputs(k) ==
    {[j \in 1..k |-> SongFile(j)]}
      \cup {[j \in 1..(k + 1) |-> IF j = a THEN OutputFile
                                   ELSE SongFile(IF j < a THEN j ELSE j - 1)] :
               a \in 1..(k + 1)}

\* create_mashup is called twice with up to TwiceFiles song files; no file
\* is at the output path before the first call
InitTwice ==
    /\ InitState(0)
    /\ invoked = {}
    /\ scratch = TRUE
    /\ num_cores = 1
    /\ env = FullEnv
    /\ \E k \in 0..TwiceFiles : media \in [1..k -> ArtifactSet]
    /\ trim_duration \in (0 - MaxNeg)..MaxDur
    /\ downloaded_files \in TwiceInputs(Len(media))
    /\ stage = "call"

NextTwice == CallCreateMashup \/ CallAgain

SpecTwice == InitTwice /\ [][NextTwice]_vars
(***************************************************************************)
(* Properties                                                              *)
(***************************************************************************)
Settled(i) == pc[i] = "done" /\ result[i] # Pending
Succeeded(i) == pc[i] = "done" /\ result[i] = SongFile(i)
Failed(i) == pc[i] = "done" /\ result[i] = NoneV
AfterDownloadAll ==
    stage \notin {"process", "no_videos", "start", "submit", "collect", "call", "called"}
PermanentErrors == {"notfound", "noaudio", "decode"}

\* the ordinals of the samples never decrease along s
AscendingOrdinals(s) ==
    \A a \in 1..Len(s) : \A b \in 1..Len(s) : a < b => s[a][1] <= s[b][1]

\* C1: the excerpts of the written mashup appear in ascending order of source
\* ordinal, whichever fetch finished first.
C1_OrdinalOrder ==
    stage = "assembled" => AscendingOrdinals(output.samples)

\* C2: a fetch never makes more than 5 download attempts, a fetch whose
\* attempts all fail makes exactly 5, and every backoff delay waited is
\* strictly greater than the one waited before it, for every jitter.
C2_RetrySchedule ==
    /\ [](\A i \in Refs : /\ tries[i] <= 5
                          /\ Failed(i) => tries[i] = 5)
    /\ [][\A i \in Refs :
            (waits'[i] = waits[i] + 1 /\ waits[i] >= 1) => delay'[i] > delay[i]]_vars

\* a fetch failed five times with an exception and slept after each
W_C2 ==
    \E i \in Refs : Failed(i) /\ tries[i] = 5 /\ waits[i] = 5

\* C3: while a permanent failure (reference not found, no audio stream,
\* decode error) is being handled, the fetch makes no further attempt and
\* waits no backoff delay: its next step reports failure.
C3_PermanentFailsFast ==
    [][\A i \in Refs :
         exc[i] \in PermanentErrors =>
            /\ waits'[i] = waits[i]
            /\ tries'[i] = tries[i]
            /\ pc'[i] # pc[i] => (pc'[i] = "done" /\ result'[i] = NoneV)]_vars

\* C4: at most min(cpu_count, 4) fetches execute at the same time.
C4_PoolWidth ==
    Cardinality(Running) <= Min(num_cores, 4)

\* C5: download_all_audio returns only when every dispatched fetch has
\* settled, a fetch reports failure only after its own five rounds, and the
\* step in which one fetch settles changes nothing of any sibling.
C5_SiblingsRunToOutcome ==
    /\ [](AfterDownloadAll => \A i \in Refs : Settled(i))
    /\ [](\A i \in Refs : Failed(i) => attempt[i] = 5)
    /\ [][\A i \in Refs : \A j \in Refs :
            (i # j /\ pc[i] # "done" /\ pc'[i] = "done") =>
               /\ pc'[j] = pc[j]
               /\ attempt'[j] = attempt[j]
               /\ result'[j] = result[j]]_vars

\* on one worker a later fetch ran to success after an earlier one had failed
W_C5 ==
    /\ stage = "returned"
    /\ num_cores = 1
    /\ \E i \in Refs : \E j \in Refs : i < j /\ Failed(i) /\ Succeeded(j)

\* C6: what download_all_audio returns holds the artifact of every fetch that
\* succeeded and nothing else, each once, so at most N entries; it is empty
\* when every fetch failed.
C6_OnlySuccesses ==
    AfterDownloadAll =>
        /\ {downloaded_files[k] : k \in 1..Len(downloaded_files)}
             = {SongFile(i) : i \in {j \in Refs : Succeeded(j)}}
        /\ \A a \in 1..Len(downloaded_files) : \A b \in 1..Len(downloaded_files) :
              a # b => downloaded_files[a] # downloaded_files[b]
        /\ Len(downloaded_files) <= Len(video_urls)
        /\ (\A i \in Refs : Failed(i)) => downloaded_files = <<>>

\* three references, one failed, the two others are returned
W_C6 ==
    /\ stage = "returned"
    /\ Len(video_urls) = 3
    /\ \E i \in Refs : Failed(i)
    /\ Len(downloaded_files) = 2

\* C7: under fair scheduling no fetch makes more than 5 attempts, and
\* eventually every fetch has settled and download_all_audio has returned.
C7_EventuallyReturns ==
    /\ [](\A i \in Refs : tries[i] <= 5)
    /\ <>(AfterDownloadAll /\ \A i \in Refs : Settled(i))

\* more references than workers, one of them used all five attempts
W_C7 ==
    /\ stage = "returned"
    /\ Len(video_urls) > num_cores
    /\ \E i \in Refs : tries[i] = 5
    /\ \A i \in Refs : Settled(i)

AudioFiles == 1..Len(downloaded_files)
ArtifactOf(k) == media[downloaded_files[k][2]]

RECURSIVE SumKept(_, _)
SumKept(k, limit) ==
    IF k = 0 THEN 0 ELSE Min(ArtifactOf(k).len, limit) + SumKept(k - 1, limit)

\* the inputs C8 is about: loadable artifacts of one sample rate, positive duration
EqualRateInputs ==
    /\ stage = "called"
    /\ downloaded_files # <<>>
    /\ trim_duration > 0
    /\ \A k \in AudioFiles : ArtifactOf(k).loadable
    /\ \A k \in AudioFiles : ArtifactOf(k).rate = ArtifactOf(1).rate

\* C8: for loadable artifacts of equal rate r and a positive duration d the
\* output holds exactly the sum of min(length_i, d*r) samples, is written
\* whenever that sum is positive, and holds d*r*count samples when no input
\* is shorter than d.
C8_SumOfExcerpts ==
    EqualRateInputs =>
        LET r == ArtifactOf(1).rate
            total == SumKept(Len(downloaded_files), trim_duration * r)
        IN /\ Len(output.samples) = total
           /\ total > 0 => (output.written /\ output.samplerate = r)
           /\ (\A k \in AudioFiles : ArtifactOf(k).len >= trim_duration * r)
                 => Len(output.samples) = trim_duration * r * Len(downloaded_files)

\* the scenario 25 s, 15 s, 30 s with excerpts of 20 s gives 55 s
W_C8 ==
    /\ stage = "called"
    /\ media = ScenarioMedia
    /\ trim_duration = 20
    /\ output.written
    /\ Len(output.samples) = 55

\* C9: whenever create_mashup, called with an excerpt duration above zero,
\* writes an output, it lasts at most excerptDuration * inputCount seconds,
\* and less only if some input artifact lasts less than excerptDuration
\* seconds.
C9_EqualUnlessShort ==
    (stage = "called" /\ output.written /\ trim_duration > 0) =>
        LET full == trim_duration * Len(downloaded_files) * output.samplerate IN
        /\ Len(output.samples) <= full
        /\ Len(output.samples) < full =>
              \E k \in AudioFiles :
                  /\ ArtifactOf(k).loadable
                  /\ ArtifactOf(k).len < trim_duration * ArtifactOf(k).rate

\* the rate of the first artifact that loads (0: none loads)
FirstRate ==
    LET L == {k \in AudioFiles : ArtifactOf(k).loadable} IN
    IF L = {} THEN 0 ELSE ArtifactOf(CHOOSE k \in L : \A m \in L : k <= m).rate

\* the artifacts that contribute at least one sample
Contributors ==
    {k \in AudioFiles :
        /\ ArtifactOf(k).loadable
        /\ LET n == ArtifactOf(k).len
               lim == trim_duration * FirstRate
           IN IF lim > 0 THEN n > 0
              ELSE IF lim = 0 THEN FALSE
              ELSE n + lim > 0}

\* C10: create_mashup returns None and writes no file exactly when no
\* artifact contributed a sample; otherwise it writes the output and returns
\* its path.
C10_NoneIffNothingContributed ==
    stage = "called" =>
        /\ (output.ret = NoneV) <=> (Contributors = {})
        /\ (output.ret = NoneV) <=> ~output.written
        /\ output.written <=> (OutputFile \in files)
        /\ output.written => output.ret = OutputFile

\* an artifact failed to load and was skipped, another one made the output
W_C10 ==
    /\ stage = "called"
    /\ output.ret = OutputFile
    /\ Len(output.samples) > 0
    /\ \E k \in AudioFiles : ~ArtifactOf(k).loadable

\* create_mashup_process has ended
Ended == stage \in {"no_videos", "no_audio", "no_mashup", "error", "sent", "send_failed"}

\* main of the CLI has exited: with 0, by one of its sys.exit(1), or by the
\* sys.exit(1) of its except clause
CliEnded == stage \in {"cli_exit0", "cli_exit1", "cli_raised"}

\* the resolver returned, and returned no result
ResolvedNothing == video_urls = <<>> /\ stage # "cli_raised"

\* C11: in create_mashup_process and in main of the CLI, download_all_audio
\* is invoked only with at least one video and create_mashup only with at
\* least one downloaded file; a run whose resolver returned nothing ends with
\* "no sources found" and has invoked no later stage, a run whose downloads
\* all failed ends with "no sources downloadable" and has not invoked the
\* assembler.
C11_StagesNeedInput ==
    /\ "download_all_audio" \in invoked => video_urls # <<>>
    /\ "create_mashup" \in invoked => downloaded_files # <<>>
    /\ ((Ended \/ CliEnded) /\ ResolvedNothing) =>
          /\ outcomes = <<"no_sources_found">>
          /\ invoked = IF CliEnded THEN {"tempdir", "resolver"} ELSE {"resolver"}
    /\ ((Ended \/ CliEnded) /\ video_urls # <<>> /\ downloaded_files = <<>>) =>
          /\ outcomes = <<"no_sources_downloadable">>
          /\ invoked = {"resolver", "tempdir", "download_all_audio"}

\* main of the CLI found two videos, every attempt to download them failed
\* and it exited
W_C11 ==
    /\ CliEnded
    /\ Len(video_urls) = 2
    /\ video_urls # <<>>
    /\ \A i \in Refs : Failed(i)
    /\ downloaded_files = <<>>
    /\ outcomes = <<"no_sources_downloadable">>

\* C12: a run that has ended reported exactly one outcome, and it is one of
\* success, no sources found, no sources downloadable, assembly failed and
\* delivery failed.
C12_OneFixedOutcome ==
    Ended => Len(outcomes) = 1 /\ outcomes[1] \in FixedOutcomes

\* C13: when a run that created the temporary directory has ended, the
\* directory and every file in it are gone, whichever way the run ended.
C13_ScratchRemoved ==
    (Ended /\ "tempdir" \in invoked) => ~scratch /\ files = {}

\* the run ended by an exception after the mashup had been written
W_C13 ==
    /\ stage = "error"
    /\ "tempdir" \in invoked
    /\ output.written
    /\ ~scratch

\* C14: the duration written into the email is the duration of the mashup
\* file that was written.
C14_ReportedIsRealized ==
    stage \in {"sent", "send_failed"} =>
        reported * output.samplerate = Len(output.samples)

\* the count and the duration of the request, when they are integers
RequestedCount == FormInt(request.num_videos, default_num_videos)
RequestedTrim == FormInt(request.trim_duration, default_trim_duration)

\* all four fields of the request are valid
ValidRequest ==
    /\ Truthy(request.singer_name)
    /\ RequestedCount.ok /\ RequestedCount.val > min_num_videos
    /\ RequestedTrim.ok /\ RequestedTrim.val > min_trim_duration
    /\ Truthy(request.receiver_email)
    /\ is_valid_email(request.receiver_email.text)

\* C15: the route starts a pipeline only for a request whose four fields are
\* valid (query not empty, count above 10, duration above 20, well-formed
\* email); every other request gets an error response and starts nothing.
C15_StartsOnlyValid ==
    stage = "responded" =>
        IF ValidRequest
        THEN response.status = "success" /\ response.started
        ELSE response.status = "error" /\ ~response.started

\* C16: in a run of download_all_audio no file name in the directory was
\* written by two ordinals, and the listing a fetch holds, from which it
\* takes the file it converts and deletes, has only files its own ordinal
\* wrote, also when one ordinal is a decimal prefix of the other.
C16_DisjointPaths ==
    /\ \A f \in dir_listing : \A g \in dir_listing : f.name = g.name => f.by = g.by
    /\ \A i \in DOMAIN matched : \A f \in matched[i].found : f.by = i

\* the fetch of ordinal 1 holds a listing with its own file while the fetch
\* of ordinal 10 is running and its file is in the directory
W_C16 ==
    /\ DOMAIN matched # {}
    /\ matched[1].pc = "listed"
    /\ matched[1].found # {}
    /\ matched[10].pc = "ydl"
    /\ \E f \in dir_listing : f.by = 10

\* C17: when a fetch has returned and the directory still exists, no video
\* file of its ordinal is in the directory, and its song file is there only
\* if the fetch returned it.
C17_NoIntermediateLeft ==
    \A i \in Refs :
        (pc[i] = "done" /\ scratch) =>
            /\ Listed(i, files) = {}
            /\ SongFile(i) \in files => Succeeded(i)

\* the decoded artifact of ordinal i can be read and has frames
SoundArtifact(i) == media[i].loadable /\ media[i].len > 0

\* C18: a fetch returns its song file, and download_all_audio forwards it,
\* only if the decoded artifact is readable and not empty.
C18_OnlySoundArtifacts ==
    /\ \A i \in Refs : Succeeded(i) => SoundArtifact(i)
    /\ \A k \in 1..Len(downloaded_files) : SoundArtifact(downloaded_files[k][2])

\* C19: a call of create_mashup with at least one artifact and a zero or
\* negative trim_duration returns None and writes no output file.
C19_RejectsNonPositive ==
    (stage = "called" /\ downloaded_files # <<>> /\ trim_duration <= 0) =>
        output.ret = NoneV /\ ~output.written

\* C20: whenever a fetch goes from attempt k to attempt k + 1, it has waited
\* once more, for at least 5 * 2^k and at most 5 * 2^k + 1 seconds.
C20_BackoffBeforeRetry ==
    [][\A i \in Refs :
         (attempt'[i] = attempt[i] + 1 /\ attempt'[i] < max_attempts) =>
            /\ waits'[i] = waits[i] + 1
            /\ delay'[i] >= base_delay * Pow2(attempt[i]) * JitterSteps
            /\ delay'[i] <= (base_delay * Pow2(attempt[i]) + 1) * JitterSteps]_vars

\* the frames of artifact k in the written mashup
FramesOf(k) ==
    Cardinality({j \in 1..Len(output.samples) : output.samples[j][1] = k})

\* C21: of every readable artifact the written mashup holds min(t, d) seconds
\* measured at the artifact's own sample rate, that is min(len, d * rate)
\* frames, also when the artifacts differ in sample rate.
C21_OwnRateExcerpts ==
    (stage = "called" /\ trim_duration > 0 /\ output.written) =>
        \A k \in AudioFiles :
            ArtifactOf(k).loadable =>
                FramesOf(k) = Min(ArtifactOf(k).len,
                                  trim_duration * ArtifactOf(k).rate)

\* C22: when create_mashup of the Streamlit variant returns None, the block
\* of the button reports an assembly failure, makes no zip file, sends no
\* email and raises nothing.
C22_StreamlitAssemblyFailed ==
    (stage \in {"st_done", "st_raised", "st_no_audio"}
       /\ downloaded_files # <<>> /\ output.ret = NoneV) =>
        /\ outcomes = <<"assembly_failed">>
        /\ "zip" \notin invoked
        /\ "email" \notin invoked

\* C23: when main of the CLI exits, temp_audio_files and everything in it
\* are gone, and a run that created its mashup exits without error.
C23_CliScratchRemoved ==
    CliEnded =>
        /\ ~scratch
        /\ files = {}
        /\ output.written => stage = "cli_exit0"

\* the second call read the artifacts the first call read: the file at the
\* output path, where it is one of audio_files, was absent both times
SameArtifacts ==
    \A k \in 1..Len(downloaded_files) :
        downloaded_files[k] = OutputFile => ~previous.written

C25_NoWaitAfterLastAttempt ==
    \A i \in Refs : (Failed(i) /\ tries[i] = max_attempts) => waits[i] < tries[i]

\* the messages delivered to stream c
Delivered(c) == {streams[c].received[k] : k \in 1..Len(streams[c].received)}

\* C26: no message is delivered twice or to two streams, the messages of one
\* thread reach a stream in the order they were put, and a message taken
\* from the queue is not lost while a client is connected.
C26_ExactlyOnceInOrder ==
    /\ [](\A c \in DOMAIN streams : \A d \in DOMAIN streams :
            c # d => Delivered(c) \cap Delivered(d) = {})
    /\ [](\A c \in DOMAIN streams :
            \A a \in 1..Len(streams[c].received) : \A b \in 1..Len(streams[c].received) :
               LET x == streams[c].received[a]
                   y == streams[c].received[b]
               IN /\ (a # b => x # y)
                  /\ (a < b /\ x[1] = y[1]) => x[2] < y[2])
    /\ [][dropped' # dropped => ~(\E c \in DOMAIN streams : streams[c].connected)]_vars
====
